---- MODULE Spec2Model ----
(***************************************************************************)
(* The BasicAgent workflow of video_tutorial_materials/01_basic_agent.ipynb *)
(* as a state machine.  One run of the workflow is modelled: the StartEvent *)
(* is consumed by setup, LLMCallEvents by speak_with_agent, ToolCallEvents  *)
(* by the four workers of handle_tool_call and ToolCallResultEvents by      *)
(* aggregate_tool_results.  A step that awaits an external collaborator     *)
(* (the language model, a tool) is split at the await.  A step that raises  *)
(* fails the run: the exception reaches the caller awaiting the handler and *)
(* the remaining step tasks are cancelled.                                  *)
(***************************************************************************)
EXTENDS Integers, Sequences, FiniteSets, TLC

VARIABLES
    ev,               \* the StartEvent: the keyword arguments of workflow.run
    status,           \* "start" | "running" | "done" | "failed"
    error,            \* the exception the caller sees: [step, exc], or NoError
    chat_history,     \* the chat history list object (the caller's when supplied)
    num_tool_calls,   \* ctx["num_tool_calls"]; 0 while unset
    llm_events,       \* LLMCallEvents waiting for speak_with_agent
    speak_pc,         \* "idle" | "awaiting": speak_with_agent at its await of the model
    llm_input,        \* the request of the model call in flight (or the last one)
    response,         \* tool calls of the last model response
    tool_events,      \* ToolCallEvents waiting for a handle_tool_call worker
    running,          \* tool calls whose handle_tool_call awaits tool.acall
    result_events,    \* ToolCallResultEvents waiting for aggregate_tool_results
    events_buffer,    \* the buffer of ctx.collect_events
    stream,           \* events written to the handler's stream (ProgressEvent msgs)
    result,           \* the StopEvent result: [returned, response, chat_history]
    llm_calls,        \* number of model calls issued so far
    requests,         \* history: the tool calls dispatched so far, over all rounds
    log,              \* history: <<"progress" | "result", tool_id>> in order of occurrence
    arrived,          \* results of the current round that reached aggregate_tool_results
    advanced          \* LLMCallEvents aggregate_tool_results emitted in the current round

vars == <<ev, status, error, chat_history, num_tool_calls, llm_events, speak_pc,
          llm_input, response, tool_events, running, result_events, events_buffer,
          stream, result, llm_calls, requests, log, arrived, advanced>>

(***************************************************************************)
(* Bounds of the model.                                                    *)
(***************************************************************************)
MaxToolCalls == 3   \* tool calls the model requests in one run, wide responses apart

(***************************************************************************)
(* Formatting: str(int) and the f-strings of the notebook.                 *)
(***************************************************************************)
Digit == <<"0", "1", "2", "3", "4", "5", "6", "7", "8", "9">>

RECURSIVE Str(_)
Str(n) == IF n < 10 THEN Digit[n + 1] ELSE Str(n \div 10) \o Digit[(n % 10) + 1]

RECURSIVE Join(_, _)
Join(sep, lines) ==
    IF lines = <<>> THEN ""
    ELSE IF Len(lines) = 1 THEN lines[1]
    ELSE lines[1] \o sep \o Join(sep, Tail(lines))

\* repr of a kwargs dict with int values: {'a': 10, 'b': 10}
KwargsRepr(kwargs) ==
    "{" \o Join(", ", [i \in 1..Len(kwargs) |->
                        "'" \o kwargs[i][1] \o "': " \o Str(kwargs[i][2])]) \o "}"

(***************************************************************************)
(* Chat messages.  Every message carries the same fields; tool_call_id and *)
(* name are the additional_kwargs of a tool message and "" elsewhere.      *)
(***************************************************************************)
ChatMessage(role, content, tool_call_id, name, tool_calls) ==
    [role |-> role, content |-> content, tool_call_id |-> tool_call_id,
     name |-> name, tool_calls |-> tool_calls]

PriorUser == ChatMessage("user", "What is 10 + 10?", "", "", <<>>)
PriorAssistant == ChatMessage("assistant", "10 + 10 is 20.", "", "", <<>>)

UserMsgText == "What is the capital of Canada?"

(***************************************************************************)
(* Optional values: a keyword argument is omitted, None or a value.        *)
(***************************************************************************)
Omitted(dflt) == [given |-> "omitted", val |-> dflt]
NoneVal(dflt) == [given |-> "None", val |-> dflt]
Some(v) == [given |-> "value", val |-> v]

\* the exception that fails the run: the step that raised, the exception type and,
\* for handle_tool_call, the tool call it was handling
NoError == [step |-> "", exc |-> "", tool_id |-> ""]
Raised(step, exc, tool_id) == [step |-> step, exc |-> exc, tool_id |-> tool_id]

(***************************************************************************)
(* Tools.  add_two_numbers is the notebook's tool; divide_two_numbers is a *)
(* second registered tool whose function raises on b = 0.  A tool call     *)
(* (ToolSelection) names any tool, registered or not.                      *)
(***************************************************************************)
AddTool == "add_two_numbers"
DivTool == "divide_two_numbers"
GhostTool == "multiply_two_numbers"

Kw(kwargs, key) == kwargs[CHOOSE i \in 1..Len(kwargs) : kwargs[i][1] = key][2]

\* faulty variant: the wrong operation
add_two_numbers_product(a, b) == a * b

add_two_numbers(a, b) == a + b

\* tool.acall(**kwargs): the ToolOutput content, or the exception raised
Acall(tool_name, kwargs) ==
    IF tool_name = AddTool
    THEN [raised |-> FALSE,
          content |-> Str(add_two_numbers(Kw(kwargs, "a"), Kw(kwargs, "b")))]
    ELSE IF Kw(kwargs, "b") = 0
    THEN [raised |-> TRUE, content |-> "integer division or modulo by zero"]
    ELSE [raised |-> FALSE, content |-> Str(Kw(kwargs, "a") \div Kw(kwargs, "b"))]

ToolSelection(tool_id, tool_name, tool_kwargs) ==
    [tool_id |-> tool_id, tool_name |-> tool_name, tool_kwargs |-> tool_kwargs]

\* the directives a model response can carry: (tool_name, tool_kwargs)
Directives ==
    { <<AddTool, << <<"a", 10>>, <<"b", 10>> >> >>,
      <<DivTool, << <<"a", 10>>, <<"b", 0>> >> >>,
      <<GhostTool, << <<"a", 10>>, <<"b", 10>> >> >> }

Responses == UNION { [1..n -> Directives] : n \in 0..MaxToolCalls }

NumWorkers == 4     \* @step(num_workers=4) of handle_tool_call

\* a response with one tool call more than handle_tool_call has workers:
\* add_two_numbers(1, 10), ..., add_two_numbers(5, 10)
WideResponse ==
    [i \in 1..(NumWorkers + 1) |-> <<AddTool, << <<"a", i>>, <<"b", 10>> >> >>]

ToolCallId(round, i) == "call_" \o Str(round) \o "_" \o Str(i)

\* llm.get_tool_calls_from_response: the ToolSelections of a response
ToolCalls(round, directives) ==
    [i \in 1..Len(directives) |->
        ToolSelection(ToolCallId(round, i), directives[i][1], directives[i][2])]

AnswerText == "I'm here to help with adding two numbers together."

\* response.message of the model
ResponseMessage(tool_calls) ==
    ChatMessage("assistant",
                IF tool_calls = <<>> THEN AnswerText ELSE "",
                "", "",
                [i \in 1..Len(tool_calls) |-> tool_calls[i].tool_id])

(***************************************************************************)
(* The keyword arguments of workflow.run.                                  *)
(***************************************************************************)
DefaultLLM == [model |-> "gpt-4o", is_function_calling_model |-> TRUE]
LLMs == { DefaultLLM, [model |-> "gpt-3.5-turbo-instruct", is_function_calling_model |-> FALSE] }

AgentConfig(system_prompt, tools) == [system_prompt |-> system_prompt, tools |-> tools]

ConfiguredPrompt ==
    [lead |-> " ", body |-> "You are an agent that adds two numbers together.", trail |-> "\n"]
NoPrompt == [lead |-> "", body |-> "", trail |-> ""]

AgentConfigs ==
    { AgentConfig(Some(ConfiguredPrompt), Some(<<AddTool>>)),
      AgentConfig(Some(ConfiguredPrompt), Some(<<AddTool, DivTool>>)),
      AgentConfig(Some(ConfiguredPrompt), NoneVal(<<>>)),
      AgentConfig(NoneVal(NoPrompt), Some(<<AddTool, DivTool>>)) }

NoConfig == AgentConfig(NoneVal(NoPrompt), NoneVal(<<>>))

\* initial_state: omitted ({}), the notebook's mapping, a mapping of two entries
InitialStates ==
    { Omitted(<<>>),
      Some(<< <<"user_name", "Logan">> >>),
      Some(<< <<"user_name", "Logan">>, <<"account", "basic">> >>) }

StartEvents ==
    [ agent_config : {Omitted(NoConfig)} \cup {Some(c) : c \in AgentConfigs},
      user_msg : {Omitted(""), Some(UserMsgText)},
      llm : {Omitted(DefaultLLM), NoneVal(DefaultLLM)} \cup {Some(l) : l \in LLMs},
      chat_history : {Omitted(<<>>), NoneVal(<<>>), Some(<<PriorUser, PriorAssistant>>)},
      initial_state : InitialStates ]

NoResult == [returned |-> FALSE, response |-> "", chat_history |-> <<>>]

Init ==
    /\ ev \in StartEvents
    /\ status = "start"
    /\ error = NoError
    /\ chat_history = ev.chat_history.val
    /\ num_tool_calls = 0
    /\ llm_events = 0
    /\ speak_pc = "idle"
    /\ llm_input = <<>>
    /\ response = <<>>
    /\ tool_events = <<>>
    /\ running = {}
    /\ result_events = <<>>
    /\ events_buffer = <<>>
    /\ stream = <<>>
    /\ result = NoResult
    /\ llm_calls = 0
    /\ requests = <<>>
    /\ log = <<>>
    /\ arrived = 0
    /\ advanced = 0

(***************************************************************************)
(* setup: validates the inputs and stores them in the context.             *)
(***************************************************************************)
\* ev.get(key, default): the default when omitted; None is kept
IsNone(opt, has_default) ==
    \/ opt.given = "None"
    \/ opt.given = "omitted" /\ ~has_default

\* faulty variant: is_function_calling_model is not checked
SetupRaises_no_capability_check ==
    IsNone(ev.user_msg, FALSE) \/ IsNone(ev.llm, TRUE) \/ IsNone(ev.chat_history, TRUE)

SetupRaises ==
    \/ IsNone(ev.user_msg, FALSE) \/ IsNone(ev.llm, TRUE) \/ IsNone(ev.chat_history, TRUE)
    \/ ~ev.llm.val.is_function_calling_model

\* faulty variant: the user message appended twice
WithUserMessage_twice(history, user_msg) ==
    Append(Append(history, ChatMessage("user", user_msg, "", "", <<>>)),
           ChatMessage("user", user_msg, "", "", <<>>))

\* faulty variant: the history rebuilt from the user message alone
WithUserMessage_replace(history, user_msg) ==
    <<ChatMessage("user", user_msg, "", "", <<>>)>>

\* chat_history.append(ChatMessage(role="user", content=user_msg))
WithUserMessage(history, user_msg) ==
    Append(history, ChatMessage("user", user_msg, "", "", <<>>))

setup ==
    /\ status = "start"
    /\ IF SetupRaises
       THEN /\ status' = "failed"
            /\ error' = Raised("setup", "ValueError", "")
            /\ UNCHANGED <<chat_history, llm_events>>
       ELSE /\ status' = "running"
            /\ chat_history' = WithUserMessage(chat_history, ev.user_msg.val)
            /\ llm_events' = llm_events + 1
            /\ UNCHANGED error
    /\ UNCHANGED <<ev, num_tool_calls, speak_pc, llm_input, response, tool_events, running,
                   result_events, events_buffer, stream, result, llm_calls, requests, log, arrived, advanced>>

(***************************************************************************)
(* speak_with_agent, up to its await of llm.achat_with_tools: builds the   *)
(* system prompt and the model request.                                    *)
(***************************************************************************)
\* faulty variant: the prompt is not stripped
Strip_identity(prompt) == prompt.lead \o prompt.body \o prompt.trail

\* str.strip() of a prompt given as leading whitespace, body, trailing whitespace
Strip(prompt) == prompt.body

UserStateStr(user_state) ==
    Join("\n", [i \in 1..Len(user_state) |-> user_state[i][1] \o ": " \o user_state[i][2]])

SystemPrompt(agent_config, user_state) ==
    Strip(agent_config.system_prompt.val)
        \o "\n\nHere is the current user state:\n" \o UserStateStr(user_state)

\* agent_config.system_prompt.strip() on a missing config or a None prompt
SystemPromptRaises ==
    \/ ev.agent_config.given # "value"
    \/ ev.agent_config.val.system_prompt.given # "value"

\* faulty variant: only the last message of the history is sent
LlmInput_last_message ==
    <<ChatMessage("system", SystemPrompt(ev.agent_config.val, ev.initial_state.val), "", "", <<>>),
      chat_history[Len(chat_history)]>>

\* [ChatMessage(role="system", content=system_prompt)] + chat_history
LlmInput ==
    <<ChatMessage("system", SystemPrompt(ev.agent_config.val, ev.initial_state.val), "", "", <<>>)>>
        \o chat_history

speak_with_agent_request ==
    /\ status = "running"
    /\ speak_pc = "idle"
    /\ llm_events > 0
    /\ llm_events' = llm_events - 1
    /\ IF SystemPromptRaises
       THEN /\ status' = "failed"
            /\ error' = Raised("speak_with_agent", "AttributeError", "")
            /\ UNCHANGED <<speak_pc, llm_input, llm_calls>>
       ELSE /\ llm_input' = LlmInput
            /\ speak_pc' = "awaiting"
            /\ llm_calls' = llm_calls + 1
            /\ UNCHANGED <<status, error>>
    /\ UNCHANGED <<ev, chat_history, num_tool_calls, response, tool_events, running,
                   result_events, events_buffer, stream, result, requests, log, arrived, advanced>>

(***************************************************************************)
(* speak_with_agent, from the model's response on.                         *)
(***************************************************************************)
\* the responses the model can give: it is offered agent_config.tools
OfferedResponses ==
    IF ev.agent_config.val.tools.given = "value"
    THEN {r \in Responses : r = <<>> \/ Len(requests) + Len(r) <= MaxToolCalls}
            \cup (IF requests = <<>> THEN {WideResponse} ELSE {})
    ELSE {<<>>}

ToolCallEvent(tool_call, tools) == [tool_call |-> tool_call, tools |-> tools]

StopResult(message) ==
    [returned |-> TRUE, response |-> message.content,
     chat_history |-> Append(chat_history, message)]

\* faulty variants: the test inverted; a single tool call taken for an answer
IsFinal_inverted(tool_calls) == Len(tool_calls) # 0

IsFinal_lenient(tool_calls) == Len(tool_calls) <= 1

\* len(tool_calls) == 0: the response is the final answer
IsFinal(tool_calls) == Len(tool_calls) = 0

\* faulty variant: the response is appended only when it is the final answer
WithResponseMessage_final_only(history, message) ==
    IF message.tool_calls = <<>> THEN Append(history, message) ELSE history

\* chat_history.append(response.message), in either branch
WithResponseMessage(history, message) == Append(history, message)

speak_with_agent_response ==
    /\ status = "running"
    /\ speak_pc = "awaiting"
    /\ \E directives \in OfferedResponses :
        LET tool_calls == ToolCalls(llm_calls, directives)
            message == ResponseMessage(tool_calls)
        IN  /\ response' = tool_calls
            /\ speak_pc' = "idle"
            /\ chat_history' = WithResponseMessage(chat_history, message)
            /\ IF IsFinal(tool_calls)
               THEN /\ status' = "done"
                    /\ result' = StopResult(message)
                    /\ UNCHANGED <<num_tool_calls, tool_events, requests, arrived, advanced>>
               ELSE /\ num_tool_calls' = Len(tool_calls)
                    /\ tool_events' = tool_events \o
                          [i \in 1..Len(tool_calls) |->
                              ToolCallEvent(tool_calls[i], ev.agent_config.val.tools)]
                    /\ requests' = requests \o tool_calls
                    /\ arrived' = 0
                    /\ advanced' = 0
                    /\ UNCHANGED <<status, result>>
    /\ UNCHANGED <<ev, error, llm_events, llm_input, running, result_events,
                   events_buffer, stream, llm_calls, log>>

(***************************************************************************)
(* handle_tool_call, up to its await of tool.acall.                        *)
(***************************************************************************)
Range(seq) == {seq[i] : i \in 1..Len(seq)}

\* tools_by_name.get(tool_call.tool_name) is not None
ToolExists(tool_call, tools) == tool_call.tool_name \in Range(tools.val)

\* the exception handle_tool_call raises before its try block, or ""
HandleRaises(tool_call, tools) ==
    IF tools.given # "value" THEN "TypeError"             \* for tool in ev.tools
    ELSE IF ~ToolExists(tool_call, tools) THEN "AttributeError"   \* tool.metadata
    ELSE ""

\* faulty variant: no limit on the concurrent executions of the step
WorkerFree_unbounded == TRUE

\* one of the num_workers workers of the step is waiting for an event
WorkerFree == Cardinality(running) < NumWorkers

handle_tool_call_begin ==
    /\ status = "running"
    /\ tool_events # <<>>
    /\ WorkerFree
    /\ LET event == Head(tool_events)
       IN  /\ tool_events' = Tail(tool_events)
           /\ IF HandleRaises(event.tool_call, event.tools) # ""
              THEN /\ status' = "failed"
                   /\ error' = Raised("handle_tool_call", HandleRaises(event.tool_call, event.tools),
                                    event.tool_call.tool_id)
                   /\ UNCHANGED running
              ELSE /\ running' = running \cup {event.tool_call}
                   /\ UNCHANGED <<status, error>>
    /\ UNCHANGED <<ev, chat_history, num_tool_calls, llm_events, speak_pc, llm_input,
                   response, result_events, events_buffer, stream, result, llm_calls,
                   requests, log, arrived, advanced>>

(***************************************************************************)
(* handle_tool_call, from the return (or exception) of tool.acall on.      *)
(***************************************************************************)
ToolMsg(tool_call, output) ==
    ChatMessage("tool",
                IF output.raised
                THEN "Encountered error in tool call: " \o output.content
                ELSE output.content,
                tool_call.tool_id, tool_call.tool_name, <<>>)

ProgressEvent(tool_call, tool_msg) ==
    [msg |-> "Tool " \o tool_call.tool_name \o " called with "
                \o KwargsRepr(tool_call.tool_kwargs) \o " returned " \o tool_msg.content]

ToolCallResultEvent(chat_message) == [chat_message |-> chat_message]

\* faulty variant: no try/except around tool.acall
handle_tool_call_end_uncaught(tool_call) ==
    /\ status = "running"
    /\ tool_call \in running
    /\ running' = running \ {tool_call}
    /\ LET output == Acall(tool_call.tool_name, tool_call.tool_kwargs)
           tool_msg == ChatMessage("tool", output.content, tool_call.tool_id,
                                   tool_call.tool_name, <<>>)
       IN  IF output.raised
           THEN /\ status' = "failed"
                /\ error' = Raised("handle_tool_call", "ZeroDivisionError", tool_call.tool_id)
                /\ UNCHANGED <<stream, result_events, log>>
           ELSE /\ stream' = Append(stream, ProgressEvent(tool_call, tool_msg))
                /\ result_events' = Append(result_events, ToolCallResultEvent(tool_msg))
                /\ log' = log \o << <<"progress", tool_call.tool_id>>,
                                    <<"result", tool_call.tool_id>> >>
                /\ UNCHANGED <<status, error>>
    /\ UNCHANGED <<ev, chat_history, num_tool_calls, llm_events, speak_pc,
                   llm_input, response, tool_events, events_buffer, result, llm_calls,
                   requests, arrived, advanced>>

handle_tool_call_end(tool_call) ==
    /\ status = "running"
    /\ tool_call \in running
    /\ LET tool_msg == ToolMsg(tool_call, Acall(tool_call.tool_name, tool_call.tool_kwargs))
       IN  /\ stream' = Append(stream, ProgressEvent(tool_call, tool_msg))
           /\ result_events' = Append(result_events, ToolCallResultEvent(tool_msg))
           /\ log' = log \o << <<"progress", tool_call.tool_id>>, <<"result", tool_call.tool_id>> >>
    /\ running' = running \ {tool_call}
    /\ UNCHANGED <<ev, status, error, chat_history, num_tool_calls, llm_events, speak_pc,
                   llm_input, response, tool_events, events_buffer, result, llm_calls,
                   requests, arrived, advanced>>

(***************************************************************************)
(* aggregate_tool_results: the join of a round's results.                  *)
(***************************************************************************)
\* faulty variant: one expected event instead of n
CollectEvents_first(buffer, n) ==
    IF Len(buffer) >= 1
    THEN [results |-> SubSeq(buffer, 1, 1), buffer |-> SubSeq(buffer, 2, Len(buffer))]
    ELSE [results |-> <<>>, buffer |-> buffer]

\* faulty variant: a fold as results arrive, whatever is buffered is returned
CollectEvents_eager(buffer, n) == [results |-> buffer, buffer |-> <<>>]

\* faulty variant: the results are returned in reverse
CollectEvents_reversed(buffer, n) ==
    IF Len(buffer) >= n
    THEN [results |-> [i \in 1..n |-> buffer[n + 1 - i]],
          buffer |-> SubSeq(buffer, n + 1, Len(buffer))]
    ELSE [results |-> <<>>, buffer |-> buffer]

\* faulty variant: the collected events stay in the buffer
CollectEvents_keep(buffer, n) ==
    IF Len(buffer) >= n
    THEN [results |-> SubSeq(buffer, 1, n), buffer |-> buffer]
    ELSE [results |-> <<>>, buffer |-> buffer]

\* ctx.collect_events(ev, [ToolCallResultEvent] * n) on the buffer holding ev:
\* the first n buffered events once there are n, else nothing
CollectEvents(buffer, n) ==
    IF Len(buffer) >= n
    THEN [results |-> SubSeq(buffer, 1, n), buffer |-> SubSeq(buffer, n + 1, Len(buffer))]
    ELSE [results |-> <<>>, buffer |-> buffer]

aggregate_tool_results ==
    /\ status = "running"
    /\ result_events # <<>>
    /\ result_events' = Tail(result_events)
    /\ arrived' = arrived + 1
    /\ LET collected == CollectEvents(Append(events_buffer, Head(result_events)), num_tool_calls)
       IN  /\ events_buffer' = collected.buffer
           /\ IF collected.results = <<>>
              THEN UNCHANGED <<chat_history, llm_events, advanced>>
              ELSE /\ chat_history' = chat_history \o
                          [i \in 1..Len(collected.results) |-> collected.results[i].chat_message]
                   /\ llm_events' = llm_events + 1
                   /\ advanced' = advanced + 1
    /\ UNCHANGED <<ev, status, error, num_tool_calls, speak_pc, llm_input, response,
                   tool_events, running, stream, result, llm_calls, requests, log>>

Next ==
    \/ setup
    \/ speak_with_agent_request
    \/ speak_with_agent_response
    \/ handle_tool_call_begin
    \/ \E tool_call \in running : handle_tool_call_end(tool_call)
    \/ aggregate_tool_results

Spec == Init /\ [][Next]_vars

\* every step whose event is waiting is eventually run by the event loop, and
\* every awaited model call and tool call eventually returns or raises
FairSpec ==
    /\ Spec
    /\ WF_vars(setup)
    /\ WF_vars(speak_with_agent_request)
    /\ WF_vars(speak_with_agent_response)
    /\ WF_vars(handle_tool_call_begin)
    /\ WF_vars(\E tool_call \in running : handle_tool_call_end(tool_call))
    /\ WF_vars(aggregate_tool_results)

(***************************************************************************)
(* Vocabulary of the properties.                                           *)
(***************************************************************************)
Tools == ev.agent_config.val.tools

RunEnded == status \in {"done", "failed"}

\* the tool messages handle_tool_call has returned, wherever they are now
ToolMessages ==
    {result_events[i].chat_message : i \in 1..Len(result_events)}
        \cup {events_buffer[i].chat_message : i \in 1..Len(events_buffer)}
        \cup {chat_history[i] : i \in {j \in 1..Len(chat_history) : chat_history[j].role = "tool"}}

ResultsOf(tool_id) == {m \in ToolMessages : m.tool_call_id = tool_id}

Count(kind, tool_id) == Cardinality({i \in 1..Len(log) : log[i] = <<kind, tool_id>>})

Requests == Range(requests)

Missing(r) == Tools.given = "value" /\ ~ToolExists(r, Tools)

Raising(r) ==
    /\ Tools.given = "value"
    /\ ToolExists(r, Tools)
    /\ Acall(r.tool_name, r.tool_kwargs).raised

AbortedBy(r) == error.step = "handle_tool_call" /\ error.tool_id = r.tool_id

\* the messages this run appended to the caller's history
NewIndices(h) == (Len(ev.chat_history.val) + 1)..Len(h)

(***************************************************************************)
(* C1.  Join barrier: in a round whose response carried N >= 1 tool calls, *)
(* no LLMCallEvent is pending and no model call is in flight until exactly *)
(* N results of the round have reached aggregate_tool_results, and         *)
(* aggregate_tool_results emits one LLMCallEvent, when the N-th arrives.   *)
(***************************************************************************)
C1_JoinBarrier ==
    num_tool_calls > 0 =>
        /\ arrived <= num_tool_calls
        /\ advanced <= 1
        /\ (advanced = 1) <=> (arrived = num_tool_calls)
        /\ (llm_events > 0 \/ speak_pc = "awaiting") =>
                (arrived = num_tool_calls /\ llm_events + (IF speak_pc = "awaiting" THEN 1 ELSE 0) = 1)

\* a round of three calls joined, the first requested call having finished last
C1_Witness ==
    /\ num_tool_calls = 3
    /\ arrived = 3
    /\ advanced = 1
    /\ llm_events = 1
    /\ chat_history[Len(chat_history)].tool_call_id = response[1].tool_id

(***************************************************************************)
(* C2.  A tool call naming a tool that is not among the agent's tools      *)
(* raises nothing and yields a tool message "Tool <name> does not exist".  *)
(* The code raises AttributeError while building additional_kwargs.        *)
(***************************************************************************)
C2_MissingToolYieldsNotFound ==
    \A r \in Requests :
        Missing(r) =>
            /\ ~AbortedBy(r)
            /\ \A m \in ResultsOf(r.tool_id) :
                    m.content = "Tool " \o r.tool_name \o " does not exist"

(***************************************************************************)
(* C3.  A registered tool whose function raises does not abort the run:    *)
(* its handle_tool_call returns a tool message "Encountered error in tool  *)
(* call: <error>", that message travels to aggregation, and once it is in  *)
(* the chat history of its round the next LLMCallEvent has been emitted;   *)
(* a completed run holds that message in its chat history.                 *)
(***************************************************************************)
C3_RaisingToolYieldsErrorResult ==
    \A r \in Requests :
        Raising(r) =>
            /\ ~AbortedBy(r)
            /\ status = "done" =>
                    /\ Count("result", r.tool_id) = 1
                    /\ \E m \in ResultsOf(r.tool_id) : m \in Range(chat_history)
            /\ Count("result", r.tool_id) = 1 => Cardinality(ResultsOf(r.tool_id)) = 1
            /\ \A m \in ResultsOf(r.tool_id) :
                    /\ m.role = "tool"
                    /\ m.content = "Encountered error in tool call: "
                                        \o Acall(r.tool_name, r.tool_kwargs).content
                    /\ (r \in Range(response) /\ m \in Range(chat_history)) => advanced = 1

\* the error message of divide_two_numbers is in the history and the loop went on
C3_Witness ==
    /\ \E i \in 1..Len(chat_history) :
            chat_history[i].content
                = "Encountered error in tool call: integer division or modulo by zero"
    /\ llm_calls = 2
    /\ speak_pc = "awaiting"

(***************************************************************************)
(* C4.  When the model's response carries no tool call, speak_with_agent   *)
(* appends the response, returns the StopEvent (the run is done), sends no *)
(* ToolCallEvent and no Progress event is written.                         *)
(***************************************************************************)
C4_ZeroToolCallsEndsRun ==
    [][(speak_pc = "awaiting" /\ speak_pc' = "idle" /\ response' = <<>>) =>
            /\ status' = "done"
            /\ chat_history' = Append(chat_history, ResponseMessage(<<>>))
            /\ result' = [returned |-> TRUE, response |-> AnswerText,
                          chat_history |-> chat_history']
            /\ tool_events' = tool_events /\ tool_events = <<>>
            /\ running' = running /\ running = {}
            /\ stream' = stream
            /\ requests' = requests]_vars

\* the tool-free answer after one round with one tool call
C4_Witness ==
    /\ status = "done"
    /\ response = <<>>
    /\ llm_calls = 2
    /\ Len(stream) = 1

(***************************************************************************)
(* C5.  Every dispatched tool call yields exactly one ToolCallResultEvent  *)
(* carrying its tool_call_id: never more than one and, when the run has    *)
(* ended, not zero.  A call to a missing tool yields none (see C2).        *)
(***************************************************************************)
C5_ExactlyOneResultPerRequest ==
    \A r \in Requests :
        /\ Count("result", r.tool_id) <= 1
        /\ RunEnded => Count("result", r.tool_id) = 1

(***************************************************************************)
(* C6.  The chat_history a completed run returns has, among the messages   *)
(* the run appended, the new user message exactly once, first, and the     *)
(* final (tool-free) assistant message exactly once, last.                 *)
(***************************************************************************)
C6_UserAndFinalAssistantOnce ==
    status = "done" =>
        LET h == result.chat_history
            new == NewIndices(h)
        IN  /\ result.returned
            /\ h = chat_history
            /\ Len(h) >= Len(ev.chat_history.val) + 2
            /\ h[Len(ev.chat_history.val) + 1] = ChatMessage("user", ev.user_msg.val, "", "", <<>>)
            /\ Cardinality({i \in new : h[i].role = "user"}) = 1
            /\ h[Len(h)].role = "assistant"
            /\ h[Len(h)].content = result.response
            /\ Cardinality({i \in new : h[i].role = "assistant" /\ h[i].tool_calls = <<>>}) = 1

\* a run over a prior history, done after two rounds with tool calls
C6_Witness ==
    /\ status = "done"
    /\ ev.chat_history.given = "value"
    /\ llm_calls = 3
    /\ Len(requests) = 3

(***************************************************************************)
(* C7.  With an AgentConfig supplied, its system prompt or tool set         *)
(* possibly omitted, the only failure the caller sees is the error setup   *)
(* raises.  The code raises from speak_with_agent when the system prompt   *)
(* is omitted, and from handle_tool_call (see C2).                         *)
(***************************************************************************)
C7_OnlySetupErrorSurfaces ==
    (ev.agent_config.given = "value" /\ status = "failed") => error.step = "setup"

(***************************************************************************)
(* C8.  Setup fails fast.  As claimed: a missing user message, a missing   *)
(* model client or a model client without tool calling makes setup raise   *)
(* before any model call, the caller's chat history unchanged.             *)
(***************************************************************************)
SetupFailedFast ==
    /\ status = "failed"
    /\ error = Raised("setup", "ValueError", "")
    /\ llm_calls = 0
    /\ llm_events = 0
    /\ chat_history = ev.chat_history.val

C8_SetupFailsFast_AsClaimed ==
    (/\ status # "start"
     /\ \/ ev.user_msg.given # "value"
        \/ ev.llm.given # "value"
        \/ ~ev.llm.val.is_function_calling_model)
        => SetupFailedFast

(***************************************************************************)
(* C8, amended.  A missing user message, a model client passed as None or  *)
(* a model client without tool calling makes setup raise before any model  *)
(* call, the caller's chat history unchanged; an omitted llm argument      *)
(* falls back to the default client and setup succeeds.                    *)
(***************************************************************************)
C8_SetupFailsFast ==
    /\ (/\ status # "start"
        /\ \/ ev.user_msg.given # "value"
           \/ ev.llm.given = "None"
           \/ ~ev.llm.val.is_function_calling_model)
            => SetupFailedFast
    /\ (/\ status # "start"
        /\ ev.llm.given = "omitted"
        /\ ev.user_msg.given = "value"
        /\ ev.chat_history.given # "None")
            => (status # "failed" \/ error.step # "setup")

\* setup raised on a model without tool calling; the caller's history is intact
C8_Witness ==
    /\ status = "failed"
    /\ error.step = "setup"
    /\ ev.user_msg.given = "value"
    /\ ev.llm.given = "value"
    /\ ~ev.llm.val.is_function_calling_model
    /\ chat_history = <<PriorUser, PriorAssistant>>

(***************************************************************************)
(* C9.  The run becomes done only in the step of speak_with_agent that     *)
(* receives a response without tool calls, after any number of rounds: a   *)
(* response with a tool call never ends the run.                           *)
(***************************************************************************)
C9_DoneOnlyOnToolFreeResponse ==
    [][status' = "done" =>
            /\ response' = <<>>
            /\ status # "done" => (speak_pc = "awaiting" /\ speak_pc' = "idle")]_vars

\* done only after as many rounds with a tool call as the model asked for
C9_Witness ==
    /\ status = "done"
    /\ llm_calls = MaxToolCalls + 1
    /\ Len(requests) = MaxToolCalls

(***************************************************************************)
(* C10.  Each dispatched tool call has exactly one Progress event written  *)
(* to the stream, before its result is forwarded, whether the tool        *)
(* returned, raised or does not exist.  A call to a missing tool writes    *)
(* none (see C2).                                                          *)
(***************************************************************************)
C10_OneProgressPerRequest ==
    \A r \in Requests :
        /\ Count("progress", r.tool_id) <= 1
        /\ Count("result", r.tool_id) = 1 =>
                \E i, j \in 1..Len(log) :
                    i < j /\ log[i] = <<"progress", r.tool_id>> /\ log[j] = <<"result", r.tool_id>>
        /\ RunEnded => Count("progress", r.tool_id) = 1

(***************************************************************************)
(* C11.  A call to add_two_numbers yields one tool message whose content   *)
(* is the string of a + b ("20" for 10 and 10); a completed run holds it   *)
(* once in its chat history, made a further model call after it, and       *)
(* returns that call's tool-free answer as the response text.              *)
(***************************************************************************)
Returning(r) ==
    /\ Tools.given = "value"
    /\ ToolExists(r, Tools)
    /\ r.tool_name = AddTool

InHistory(tool_id) ==
    {i \in 1..Len(chat_history) :
        chat_history[i].role = "tool" /\ chat_history[i].tool_call_id = tool_id}

C11_ToolOutputIsContent ==
    \A r \in Requests :
        Returning(r) =>
            /\ \A m \in ResultsOf(r.tool_id) :
                    /\ m.role = "tool"
                    /\ m.name = "add_two_numbers"
                    /\ m.content = Str(Kw(r.tool_kwargs, "a") + Kw(r.tool_kwargs, "b"))
                    /\ (Kw(r.tool_kwargs, "a") = 10 /\ Kw(r.tool_kwargs, "b") = 10)
                            => m.content = "20"
            /\ Cardinality(InHistory(r.tool_id)) <= 1
            /\ status = "done" =>
                    /\ Cardinality(InHistory(r.tool_id)) = 1
                    /\ llm_calls >= 2
                    /\ \A i \in InHistory(r.tool_id) : i < Len(chat_history)
                    /\ chat_history[Len(chat_history)].role = "assistant"
                    /\ chat_history[Len(chat_history)].tool_calls = <<>>
                    /\ result.response = chat_history[Len(chat_history)].content

\* the recorded run: one call add_two_numbers(10, 10), then the answer
C11_Witness ==
    /\ status = "done"
    /\ Len(requests) = 1
    /\ llm_calls = 2
    /\ stream = <<[msg |-> "Tool add_two_numbers called with {'a': 10, 'b': 10} returned 20"]>>
    /\ chat_history[Len(chat_history) - 1].content = "20"
    /\ result.response = AnswerText

(***************************************************************************)
(* C12.  The system prompt of every model request is the stripped          *)
(* configured prompt, the user-state header and one line "key: value" per  *)
(* entry of the user state, in insertion order; {"user_name": "Logan"}     *)
(* gives the line "user_name: Logan".                                      *)
(***************************************************************************)
ExpectedUserStateLines ==
    IF Len(ev.initial_state.val) = 0 THEN ""
    ELSE IF Len(ev.initial_state.val) = 1 THEN "user_name: Logan"
    ELSE "user_name: Logan\naccount: basic"

C12_UserStateRendering ==
    llm_calls > 0 =>
        /\ llm_input[1].role = "system"
        /\ llm_input[1].content =
                "You are an agent that adds two numbers together."
                    \o "\n\nHere is the current user state:\n"
                    \o ExpectedUserStateLines

\* a request built from a user state of two entries
C12_Witness ==
    /\ speak_pc = "awaiting"
    /\ Len(ev.initial_state.val) = 2
    /\ llm_input[1].content =
            "You are an agent that adds two numbers together.\n\nHere is the current user state:\nuser_name: Logan\naccount: basic"

(***************************************************************************)
(* C13.  While fewer than N results of the round have been collected,      *)
(* aggregate_tool_results changes neither the chat history nor any event   *)
(* queue but its buffer; the N tool messages are appended together on the  *)
(* N-th arrival, so the history never holds part of a round's results.     *)
(***************************************************************************)
RoundToolMessages ==
    {i \in 1..Len(chat_history) :
        /\ chat_history[i].role = "tool"
        /\ \E k \in 1..Len(response) : response[k].tool_id = chat_history[i].tool_call_id}

NoPartialRound ==
    Cardinality(RoundToolMessages) \in {0, Len(response)}

C13_PartialSetsHaveNoEffect ==
    [][/\ (arrived' = arrived + 1 /\ arrived' < num_tool_calls) =>
            /\ chat_history' = chat_history
            /\ llm_events' = llm_events
            /\ tool_events' = tool_events
            /\ stream' = stream
            /\ status' = status
            /\ events_buffer' = Append(events_buffer, Head(result_events))
       /\ (arrived' = arrived + 1 /\ arrived' = num_tool_calls) =>
            /\ Len(chat_history') = Len(chat_history) + num_tool_calls
            /\ events_buffer' = <<>>
       /\ NoPartialRound']_vars

\* two of three results collected, none of them in the history
C13_Witness ==
    /\ num_tool_calls = 3
    /\ arrived = 2
    /\ Len(events_buffer) = 2
    /\ RoundToolMessages = {}
    /\ llm_events = 0

(***************************************************************************)
(* C14.  The assistant message carrying a round's tool calls is in the     *)
(* chat history before any handle_tool_call of the round runs, and each    *)
(* tool message of the history comes after the assistant message that      *)
(* requested it.                                                           *)
(***************************************************************************)
RequestedAt(tool_id) ==
    {i \in 1..Len(chat_history) :
        /\ chat_history[i].role = "assistant"
        /\ \E k \in 1..Len(chat_history[i].tool_calls) : chat_history[i].tool_calls[k] = tool_id}

C14_ResponseBeforeToolWork ==
    /\ \A r \in Requests :
            /\ Cardinality(RequestedAt(r.tool_id)) = 1
            /\ \A i \in RequestedAt(r.tool_id) : \A j \in InHistory(r.tool_id) : i < j
    /\ \A j \in NewIndices(chat_history) :
            chat_history[j].role = "tool" => RequestedAt(chat_history[j].tool_call_id) # {}

\* tool calls waiting or running, their assistant message already the last of the history
C14_Witness ==
    /\ Len(tool_events) = 1
    /\ Cardinality(running) = 1
    /\ chat_history[Len(chat_history)].tool_calls = <<response[1].tool_id, response[2].tool_id>>

(***************************************************************************)
(* C15.  At most four executions of handle_tool_call are in progress at    *)
(* any time; a round of more than four calls to registered tools has the   *)
(* excess wait for a free worker, and all its results are eventually       *)
(* joined.                                                                 *)
(***************************************************************************)
WideRound ==
    /\ status = "running"
    /\ num_tool_calls > NumWorkers
    /\ Len(tool_events) = num_tool_calls
    /\ \A k \in 1..Len(response) : ToolExists(response[k], Tools)

Joined == arrived = num_tool_calls /\ advanced = 1

C15_BoundedWorkers ==
    /\ [](Cardinality(running) <= NumWorkers)
    /\ WideRound ~> Joined

\* five calls joined, through four workers
C15_Witness ==
    /\ num_tool_calls = NumWorkers + 1
    /\ Joined
    /\ \A k \in 1..Len(response) : Cardinality(InHistory(response[k].tool_id)) = 1

(***************************************************************************)
(* C16.  The tool messages of a round are appended in the order in which   *)
(* their results arrived at aggregation, which need not be the order of    *)
(* the requests.  As claimed: every order of a round's results can occur,  *)
(* so a waiting call is never held back by the unfinished ones.            *)
(***************************************************************************)
LogPos(tool_id) == CHOOSE k \in 1..Len(log) : log[k] = <<"result", tool_id>>

ArrivalOrder ==
    \A i, j \in NewIndices(chat_history) :
        (chat_history[i].role = "tool" /\ chat_history[j].role = "tool" /\ i < j) =>
            /\ Count("result", chat_history[i].tool_call_id) = 1
            /\ Count("result", chat_history[j].tool_call_id) = 1
            /\ LogPos(chat_history[i].tool_call_id) < LogPos(chat_history[j].tool_call_id)

C16_AnyOrder_AsClaimed ==
    /\ ArrivalOrder
    /\ (status = "running" /\ tool_events # <<>>) => Cardinality(running) < NumWorkers

(***************************************************************************)
(* C16, amended.  The tool messages of a round are appended in arrival     *)
(* order; in a round of at most four calls no waiting call is held back,   *)
(* so every order can occur; in a round of more than four calls the result *)
(* of the k-th request, k > 4, arrives after at least k - 4 others.        *)
(***************************************************************************)
ResultsBefore(tool_id) ==
    {k \in 1..Len(log) : log[k][1] = "result" /\ k < LogPos(tool_id)
                            /\ \E n \in 1..Len(response) : response[n].tool_id = log[k][2]}

C16_ArrivalOrder ==
    /\ ArrivalOrder
    /\ (status = "running" /\ tool_events # <<>> /\ num_tool_calls <= NumWorkers)
            => Cardinality(running) < NumWorkers
    /\ \A k \in 1..Len(response) :
            (k > NumWorkers /\ Count("result", response[k].tool_id) = 1)
                => Cardinality(ResultsBefore(response[k].tool_id)) >= k - NumWorkers

\* three results joined in the reverse of the order of their requests
C16_Witness ==
    /\ num_tool_calls = 3
    /\ Joined
    /\ chat_history[Len(chat_history) - 2].tool_call_id = response[3].tool_id
    /\ chat_history[Len(chat_history) - 1].tool_call_id = response[2].tool_id
    /\ chat_history[Len(chat_history)].tool_call_id = response[1].tool_id

(***************************************************************************)
(* C17.  The chat history is append-only: every step leaves the history    *)
(* it found as a prefix of the history it leaves, so the caller's prior    *)
(* history is a prefix of the chat_history a run returns.                  *)
(***************************************************************************)
IsPrefix(s, t) == Len(s) <= Len(t) /\ SubSeq(t, 1, Len(s)) = s

C17_AppendOnly ==
    [][/\ IsPrefix(chat_history, chat_history')
       /\ IsPrefix(ev.chat_history.val, chat_history')
       /\ status' = "done" => IsPrefix(ev.chat_history.val, result'.chat_history)]_vars

\* a returned history that starts with the caller's two messages
C17_Witness ==
    /\ status = "done"
    /\ ev.chat_history.given = "value"
    /\ SubSeq(result.chat_history, 1, 2) = <<PriorUser, PriorAssistant>>
    /\ Len(result.chat_history) = 8

(***************************************************************************)
(* C18.  Every model request is one system message followed by the whole   *)
(* chat history as of the call; building it leaves the chat history        *)
(* unchanged, and no system message is ever in the chat history.           *)
(***************************************************************************)
NoSystemMessage(h) == \A i \in 1..Len(h) : h[i].role # "system"

C18_RequestIsSystemPlusHistory ==
    [][/\ llm_calls' = llm_calls + 1 =>
            /\ Len(llm_input') = Len(chat_history) + 1
            /\ llm_input'[1].role = "system"
            /\ Tail(llm_input') = chat_history
            /\ chat_history' = chat_history
       /\ NoSystemMessage(chat_history')]_vars

\* the request of the second round: system message, then the six messages so far
C18_Witness ==
    /\ speak_pc = "awaiting"
    /\ llm_calls = 2
    /\ Len(chat_history) = 6
    /\ Len(llm_input) = 7
    /\ NoSystemMessage(Tail(llm_input))

(***************************************************************************)
(* C19.  Phases never overlap: at most one LLMCallEvent or model call is   *)
(* pending; while one is, no tool call of the run waits or runs and no     *)
(* result waits or is buffered; whatever tool work is pending belongs to   *)
(* the last response, whose size is num_tool_calls, so the buffer is empty *)
(* when a round is dispatched.                                             *)
(***************************************************************************)
ModelCallsPending == llm_events + (IF speak_pc = "awaiting" THEN 1 ELSE 0)

PendingToolIds ==
    {tool_events[i].tool_call.tool_id : i \in 1..Len(tool_events)}
        \cup {r.tool_id : r \in running}
        \cup {result_events[i].chat_message.tool_call_id : i \in 1..Len(result_events)}
        \cup {events_buffer[i].chat_message.tool_call_id : i \in 1..Len(events_buffer)}

C19_PhasesDoNotOverlap ==
    /\ ModelCallsPending <= 1
    /\ ModelCallsPending = 1 => PendingToolIds = {} /\ events_buffer = <<>>
    /\ PendingToolIds # {} =>
            /\ num_tool_calls = Len(response)
            /\ PendingToolIds \subseteq {response[k].tool_id : k \in 1..Len(response)}
    /\ Len(tool_events) = num_tool_calls => events_buffer = <<>>
    /\ Len(events_buffer) < num_tool_calls \/ num_tool_calls = 0

\* the second round at work: one result buffered, one call running
C19_Witness ==
    /\ llm_calls = 2
    /\ num_tool_calls = 2
    /\ Len(events_buffer) = 1
    /\ Cardinality(running) = 1
    /\ ModelCallsPending = 0

(***************************************************************************)
(* C20.  Liveness: once setup has succeeded the run keeps making steps     *)
(* until it is done, whichever tools (existing, raising or nonexistent)    *)
(* the model requested.  A call to a nonexistent tool fails the run (see   *)
(* C2), which then never reaches done.                                     *)
(***************************************************************************)
C20_RunReachesDone ==
    (/\ status # "start"
     /\ error.step # "setup"
     /\ ~SystemPromptRaises)
        => (status = "done" \/ ENABLED Next)

\* what does hold: a run that has not failed always has a step to take, and a
\* run fails only in setup, on a None system prompt, or on a missing tool
OnlyDefectsStopTheRun ==
    /\ status = "running" => ENABLED Next
    /\ status = "failed" =>
            \/ error.step = "setup"
            \/ error.step = "speak_with_agent" /\ SystemPromptRaises
            \/ error.step = "handle_tool_call" /\ \E r \in Requests : Missing(r)

====
